---- MODULE Spec2Model ----
(***************************************************************************)
(* Model of the label application: the product-description decomposer,    *)
(* the header deduplication and the table building of po_processing.py,    *)
(* the label count of label_calculation.py, and the label run of           *)
(* label_batch_generator.py and label_printer.py.                          *)
(*                                                                         *)
(* A Python str is a sequence of one-character strings.  Indices are       *)
(* 1-based: a regex match object with Python span (a, b) is modelled by    *)
(* start = a + 1 (first matched character) and end = b (last matched       *)
(* character), so p[:m.start()] is SubSeq(p, 1, start - 1) and             *)
(* p[m.end():] is SubSeq(p, end + 1, Len(p)).                              *)
(***************************************************************************)
EXTENDS Integers, Sequences, FiniteSets, TLC

VARIABLES
    first,   \* the value the caller started from
    arg,     \* the value handed to the current call
    text,    \* the local p after line 143: the normalised text of the call
    pc,      \* "call": the call is pending; "returned": result holds its triple
    result,  \* <<p_clean, flavour, strength>> of the last call
    runs,    \* calls completed
    raw,     \* the DataFrame read_po_file returned
    table,   \* the DataFrame build_po_table is working on
    stage,   \* where build_po_table stands
    edited,       \* the rows compute_final_labels is given
    final_table,  \* the rows it returns, each with its Final_Labels
    cstage,       \* "edited": the call is pending; "computed": it returned
    headers,  \* the local headers of _make_unique_headers
    seen,     \* its dict seen: name -> times met
    new,      \* its list new
    hpc,      \* "call", "loop", "returned"
    folder,   \* the names of the files in CURRENT_RUN_DIR
    paths,    \* the list generate_labels_from_table builds
    counter,  \* its local counter
    rowi,     \* the row of final_table its outer loop is at
    left,     \* the images its inner loop still has to make for that row
    files,    \* the list list_label_files returned
    before,   \* the files earlier runs left in the folder
    fstage    \* where the label run stands

dvars == <<first, arg, text, pc, result, runs>>

tvars == <<raw, table, stage>>

cvars == <<edited, final_table, cstage>>

hvars == <<headers, seen, new, hpc>>

fvars == <<folder, paths, counter, rowi, left, files, before, fstage>>

vars == <<dvars, tvars, cvars, hvars, fvars>>

-----------------------------------------------------------------------------
(* Characters and character classes of the re module.                      *)

UpperCase == <<"A","B","C","D","E","F","G","H","I","J","K","L","M",
               "N","O","P","Q","R","S","T","U","V","W","X","Y","Z">>

LowerCase == <<"a","b","c","d","e","f","g","h","i","j","k","l","m",
               "n","o","p","q","r","s","t","u","v","w","x","y","z">>

Digits == {"0","1","2","3","4","5","6","7","8","9"}

Punctuation == {"[", "]", "/", "-", "|", ";", ",", "_"}

\* \s and the characters str.strip() removes
WhiteSpace == {" ", "\t", "\n", "\r", "\f"}

Range(f) == {f[i] : i \in DOMAIN f}


\* the characters a modelled str is made of
Chars == Range(UpperCase) \cup Range(LowerCase) \cup Digits \cup WhiteSpace
             \cup Punctuation

Min(S) == CHOOSE x \in S : \A y \in S : x <= y

Max(S) == CHOOSE x \in S : \A y \in S : x >= y

IsSpace(c) == c \in WhiteSpace

IsDigit(c) == c \in Digits

\* \w, the class \b is defined by
IsWord(c) == c \in Range(UpperCase) \cup Range(LowerCase) \cup Digits \cup {"_"}

\* "." without re.DOTALL
Dot(c) == c # "\n"

\* str.lower() of one character; also the folding re.IGNORECASE applies
LowerChar(c) ==
    IF \E i \in DOMAIN UpperCase : UpperCase[i] = c
    THEN LowerCase[CHOOSE i \in DOMAIN UpperCase : UpperCase[i] = c]
    ELSE c

lower(s) == [i \in 1..Len(s) |-> LowerChar(s[i])]

\* s[a-1:b] of Python, empty when the bounds cross
Slice(s, a, b) == IF a > b THEN <<>> ELSE SubSeq(s, a, b)

-----------------------------------------------------------------------------
(* str.strip() and re.sub(r"\s+", " ", p)                                  *)

strip(s) ==
    LET keep == {i \in 1..Len(s) : ~IsSpace(s[i])}
    IN  IF keep = {} THEN <<>> ELSE SubSeq(s, Min(keep), Max(keep))

\* a pattern " +" in place of "\s+": tabs and newlines stay
CollapseSpacesOnly(s) ==
    LET idx  == [i \in 1..Len(s) |-> i]
        kept == SelectSeq(idx, LAMBDA i :
                    s[i] # " " \/ i = 1 \/ s[i - 1] # " ")
    IN  [k \in 1..Len(kept) |-> s[kept[k]]]

\* every maximal run of whitespace becomes one space
CollapseWhitespace(s) ==
    LET idx  == [i \in 1..Len(s) |-> i]
        kept == SelectSeq(idx, LAMBDA i :
                    ~IsSpace(s[i]) \/ i = 1 \/ ~IsSpace(s[i - 1]))
    IN  [k \in 1..Len(kept) |->
            IF IsSpace(s[kept[k]]) THEN " " ELSE s[kept[k]]]

\* line 143 without its .strip()
NormaliseNoStrip(s) == CollapseWhitespace(s)

\* line 143
Normalise(s) == strip(CollapseWhitespace(s))

-----------------------------------------------------------------------------
(* Python values handed to the function: None, float NaN, or a str.        *)

None == [kind |-> "None", s |-> <<>>]

NaN == [kind |-> "nan", s |-> <<>>]

Str(s) == [kind |-> "str", s |-> s]

\* line 141: str(p or ""); None and "" are falsy, NaN is truthy
StrOrEmpty(v) ==
    CASE v.kind = "None" -> <<>>
      [] v.kind = "nan"  -> <<"n", "a", "n">>
      [] OTHER           -> v.s

NoMatch == [found |-> FALSE, start |-> 0, end |-> 0, group |-> <<>>]

-----------------------------------------------------------------------------
(* The regular expressions of the decomposer, as re.search evaluates them: *)
(* the leftmost start at which the pattern matches, and from that start    *)
(* the match the greedy / lazy quantifiers select.                         *)

\* \b at the gap before position i, when s[i] is a word character
BoundaryBefore(s, i) == i = 1 \/ ~IsWord(s[i - 1])

\* \b at the gap after position e, when s[e] is a word character
BoundaryAfter(s, e) == e = Len(s) \/ ~IsWord(s[e + 1])

\* the ends e with s[i..e] matching \d+\s*mg\b (case folded)
StrengthEnds(s, i) ==
    {e \in i + 2..Len(s) :
        /\ LowerChar(s[e - 1]) = "m"
        /\ LowerChar(s[e]) = "g"
        /\ BoundaryAfter(s, e)
        /\ \E j \in i..e - 2 :
              /\ \A k \in i..j : IsDigit(s[k])
              /\ \A k \in j + 1..e - 2 : IsSpace(s[k])}

\* line 123: re.search(r"\b\d+\s*mg\b", low) is not None
TokenIsStrength(low) ==
    \E i \in 1..Len(low) : BoundaryBefore(low, i) /\ StrengthEnds(low, i) # {}

\* a greedy (.+) in place of (.+?): the span runs to the last "]"
BracketMatchGreedy(p) ==
    LET closes(i) == {j \in i + 2..Len(p) :
                         p[j] = "]" /\ \A k \in i + 1..j - 1 : Dot(p[k])}
        starts    == {i \in 1..Len(p) : p[i] = "[" /\ closes(i) # {}}
    IN  IF starts = {} THEN NoMatch
        ELSE LET i == Min(starts)
                 j == Max(closes(i))
             IN  [found |-> TRUE, start |-> i, end |-> j,
                  group |-> SubSeq(p, i + 1, j - 1)]

\* line 149: m = re.search(r"\[(.+?)\]", p)
BracketMatch(p) ==
    LET closes(i) == {j \in i + 2..Len(p) :
                         p[j] = "]" /\ \A k \in i + 1..j - 1 : Dot(p[k])}
        starts    == {i \in 1..Len(p) : p[i] = "[" /\ closes(i) # {}}
    IN  IF starts = {} THEN NoMatch
        ELSE LET i == Min(starts)
                 j == Min(closes(i))
             IN  [found |-> TRUE, start |-> i, end |-> j,
                  group |-> SubSeq(p, i + 1, j - 1)]

\* line 162: m2 = re.search(r"(\d+\s*mg)\b", p, flags=re.IGNORECASE)
StrengthMatch(p) ==
    LET starts == {i \in 1..Len(p) : StrengthEnds(p, i) # {}}
    IN  IF starts = {} THEN NoMatch
        ELSE LET i == Min(starts)
                 e == Max(StrengthEnds(p, i))
             IN  [found |-> TRUE, start |-> i, end |-> e,
                  group |-> SubSeq(p, i, e)]

\* The first index of the group in \s*(X+)$ or \s+(X+)$ matched from position a
\* on, the group ending at ge: the greedy whitespace takes the whole run
\* unless that leaves the group nothing, and then gives one character back.
GroupStart(s, a, ge) ==
    LET rest == {k \in a..ge : ~IsSpace(s[k])}
    IN  IF rest = {} THEN ge ELSE Min(rest)

\* where (.+)$ ends: $ also matches before a newline that ends the string
DotGroupEnd(s) ==
    IF Len(s) > 0 /\ s[Len(s)] = "\n" THEN Len(s) - 1 ELSE Len(s)

\* line 173: m3 = re.search(r"pods\s+(.+)$", p_wo_strength, flags=re.IGNORECASE)
PodsMatch(s) ==
    LET ge     == DotGroupEnd(s)
        starts == {i \in 1..Len(s) :
                      /\ i + 5 <= ge
                      /\ lower(SubSeq(s, i, i + 3)) = <<"p", "o", "d", "s">>
                      /\ IsSpace(s[i + 4])
                      /\ \A k \in GroupStart(s, i + 5, ge)..ge : Dot(s[k])}
    IN  IF starts = {} THEN NoMatch
        ELSE LET i == Min(starts)
             IN  [found |-> TRUE, start |-> i, end |-> ge,
                  group |-> SubSeq(s, GroupStart(s, i + 5, ge), ge)]

Delimiters == {",", "|", "-"}

\* a group (.+) in place of ([^,|-]+): the match starts at the first delimiter
TrailMatchFirstDelimiter(s) ==
    LET starts == {i \in 1..Len(s) : s[i] \in Delimiters /\ i + 1 <= Len(s)}
    IN  IF starts = {} THEN NoMatch
        ELSE LET i == Min(starts)
             IN  [found |-> TRUE, start |-> i, end |-> Len(s),
                  group |-> SubSeq(s, GroupStart(s, i + 1, Len(s)), Len(s))]

\* line 178: m4 = re.search(r"[,|-]\s*([^,|-]+)$", p_wo_strength)
TrailMatch(s) ==
    LET starts == {i \in 1..Len(s) :
                      /\ s[i] \in Delimiters
                      /\ i + 1 <= Len(s)
                      /\ \A k \in i + 1..Len(s) : s[k] \notin Delimiters}
    IN  IF starts = {} THEN NoMatch
        ELSE LET i == Min(starts)
             IN  [found |-> TRUE, start |-> i, end |-> Len(s),
                  group |-> SubSeq(s, GroupStart(s, i + 1, Len(s)), Len(s))]

-----------------------------------------------------------------------------
(* _split_flavour_strength                                                 *)

Separators == {"/", "-", "|", ";"}

\* re.split(r"[/\-\|;]", inside): the pieces between separators, empty ones
\* included
ReSplit(inside) ==
    LET cuts == <<0>> \o SelectSeq([i \in 1..Len(inside) |-> i],
                                   LAMBDA i : inside[i] \in Separators)
                      \o <<Len(inside) + 1>>
    IN  [k \in 1..Len(cuts) - 1 |->
            Slice(inside, cuts[k] + 1, cuts[k + 1] - 1)]

\* line 117
Tokens(inside) ==
    LET pieces   == ReSplit(inside)
        stripped == [k \in 1..Len(pieces) |-> strip(pieces[k])]
    IN  SelectSeq(stripped, LAMBDA t : t # <<>>)

\* " ".join(toks)
JoinSpace(toks) ==
    LET RECURSIVE join(_)
        join(k) == IF k = 0 THEN <<>>
                   ELSE IF k = 1 THEN toks[1]
                   ELSE join(k - 1) \o <<" ">> \o toks[k]
    IN  join(Len(toks))

\* the loop with a break after the first matching token
LoopStrengthFirst(tokens) ==
    LET hits == {k \in 1..Len(tokens) : TokenIsStrength(lower(tokens[k]))}
    IN  IF hits = {} THEN <<>> ELSE tokens[Min(hits)]

\* lines 121-126: the loop assigns strength at every matching token, so the
\* value left after the loop is the last one
LoopStrength(tokens) ==
    LET hits == {k \in 1..Len(tokens) : TokenIsStrength(lower(tokens[k]))}
    IN  IF hits = {} THEN <<>> ELSE tokens[Max(hits)]

\* the loop without its else: every token is appended
LoopAllTokens(tokens) == tokens

\* lines 121-126: flavour_tokens after the loop
LoopFlavourTokens(tokens) ==
    SelectSeq(tokens, LAMBDA t : ~TokenIsStrength(lower(t)))

\* lines 111-129: <<flavour, strength>>
_split_flavour_strength(inside) ==
    LET tokens == Tokens(inside)
    IN  <<strip(JoinSpace(LoopFlavourTokens(tokens))), LoopStrength(tokens)>>

-----------------------------------------------------------------------------
(* _extract_product_flavour_strength                                       *)

\* the matched span left in the text
CutNothing(p, m) == p

\* p[:m.start()] + p[m.end():]
CutMatch(p, m) == Slice(p, 1, m.start - 1) \o Slice(p, m.end + 1, Len(p))

\* lines 149-156: Case 1, a bracketed segment exists
BracketCase(p, m) ==
    LET inside == strip(m.group)
        p_clean == strip(CutMatch(p, m))
        fs == _split_flavour_strength(inside)
    IN  <<p_clean, fs[1], fs[2]>>

\* lines 159-165: <<p_wo_strength, strength>>
StripStrength(p) ==
    LET m2 == StrengthMatch(p)
    IN  IF m2.found THEN <<strip(CutMatch(p, m2)), strip(m2.group)>>
        ELSE <<p, <<>>>>

\* the two rules tried in the other order: trailing delimiter before pods
GuessFlavourTrailFirst(p_wo_strength) ==
    LET m3 == PodsMatch(p_wo_strength)
        m4 == TrailMatch(p_wo_strength)
    IN  IF m4.found
        THEN <<strip(Slice(p_wo_strength, 1, m4.start - 1)), strip(m4.group)>>
        ELSE IF m3.found
        THEN <<strip(Slice(p_wo_strength, 1, m3.start - 1)), strip(m3.group)>>
        ELSE <<p_wo_strength, <<>>>>

\* lines 170-181: <<p_clean, flavour>> guessed from what is left
GuessFlavour(p_wo_strength) ==
    LET m3 == PodsMatch(p_wo_strength)
        m4 == TrailMatch(p_wo_strength)
    IN  IF m3.found
        THEN <<strip(Slice(p_wo_strength, 1, m3.start - 1)), strip(m3.group)>>
        ELSE IF m4.found
        THEN <<strip(Slice(p_wo_strength, 1, m4.start - 1)), strip(m4.group)>>
        ELSE <<p_wo_strength, <<>>>>

\* lines 158-183: Case 2, no brackets
NoBracketCase(p) ==
    LET ws == StripStrength(p)
        pf == GuessFlavour(ws[1])
    IN  <<pf[1], pf[2], ws[2]>>

\* lines 132-183: <<p_clean, flavour, strength>>
_extract_product_flavour_strength(v) ==
    LET p == Normalise(StrOrEmpty(v))
        m == BracketMatch(p)
    IN  IF p = <<>> THEN <<<<>>, <<>>, <<>>>>
        ELSE IF m.found THEN BracketCase(p, m)
        ELSE NoBracketCase(p)

-----------------------------------------------------------------------------
(* The state machine: a caller hands the function one value and gets the   *)
(* triple back.                                                            *)

\* all concatenations of at most n pieces of the vocabulary V
Words(V, n) ==
    LET RECURSIVE W(_)
        W(k) == IF k = 0 THEN {<<>>}
                ELSE LET prev == W(k - 1)
                     IN  prev \cup {w \o v : w \in prev, v \in V}
    IN  W(n)

NoResult == <<<<>>, <<>>, <<>>>>

NoTable == [cols |-> {}, rows |-> <<>>]

\* no table is being built
TableIdle == raw = NoTable /\ table = NoTable /\ stage = "idle"

\* compute_final_labels is not running
CalcIdle == edited = <<>> /\ final_table = <<>> /\ cstage = "idle"

\* _make_unique_headers is not running
HeadersIdle == headers = <<>> /\ seen = <<>> /\ new = <<>> /\ hpc = "idle"

\* no label run
FolderIdle ==
    /\ folder = {} /\ paths = <<>> /\ counter = 0 /\ rowi = 0 /\ left = 0
    /\ files = <<>> /\ before = {} /\ fstage = "idle"

InitOver(values) ==
    /\ TableIdle /\ CalcIdle /\ HeadersIdle /\ FolderIdle
    /\ first \in values
    /\ arg = first
    /\ text = <<>>
    /\ pc = "call"
    /\ result = NoResult
    /\ runs = 0

\* one call of _extract_product_flavour_strength(arg)
Decompose ==
    /\ pc = "call"
    /\ text' = Normalise(StrOrEmpty(arg))
    /\ result' = _extract_product_flavour_strength(arg)
    /\ pc' = "returned"
    /\ runs' = runs + 1
    /\ UNCHANGED <<first, arg, tvars, cvars, hvars, fvars>>

MaxRuns == 2

\* the caller hands the returned product back to the function
Redecompose ==
    /\ pc = "returned"
    /\ runs < MaxRuns
    /\ arg' = Str(result[1])
    /\ pc' = "call"
    /\ UNCHANGED <<first, text, result, runs, tvars, cvars, hvars, fvars>>

Next == Decompose

NextRerun == Decompose \/ Redecompose

-----------------------------------------------------------------------------
(* Inputs.  The examples of the specification, spelled out.                *)

ExBlueRazz ==
    <<"B","l","u","e"," ","R","a","z","z"," ","P","o","d","s"," ",
      "[","B","l","u","e"," ","R","a","z","z"," ","/"," ","2","0","m","g","]">>

ExNicSalt ==
    <<"N","i","c"," ","S","a","l","t"," ","P","o","d","s"," ",
      "W","a","t","e","r","m","e","l","o","n"," ","I","c","e"," ","5","0","m","g">>

ExDisposable ==
    <<"D","i","s","p","o","s","a","b","l","e"," ","V","a","p","e"," ","-"," ",
      "M","a","n","g","o">>

ExMultiBracket ==
    <<"X"," ","[","A","/","1","0","m","g","]"," ","e","x","t","r","a"," ",
      "[","B","/","2","0","m","g","]">>

Examples == {ExBlueRazz, ExNicSalt, ExDisposable, ExMultiBracket}

\* a bracket with two flavour tokens and two strengths
ExTwoStrengths ==
    <<"P","o","d","s"," ","[","I","c","e"," ","/"," ","5","m","g"," ","/"," ",
      "M","i","n","t"," ","-"," ","1","0"," ","M","G","]">>

\* pods followed by a dash-delimited flavour and a strength
ExPodsAndDash ==
    <<"N","i","c"," ","p","o","d","s"," ","M","a","n","g","o"," ","-"," ",
      "I","c","e"," ","2","0"," ","m","g">>

MaxPieces == 5

MaxBracketPieces == 5

MaxPlainPieces == 5

MaxRerunPieces == 3

\* whitespace of every kind around brackets, a delimiter and a strength
Vocabulary ==
    {<<"a">>, <<" ">>, <<"\t">>, <<"\n">>, <<"[">>, <<"]">>, <<"-">>,
     <<"5","m","g">>}

\* bracketed segments with several tokens and strengths
BracketVocabulary ==
    {<<"a">>, <<" ">>, <<"[">>, <<"]">>, <<"/">>, <<"5","m","g">>,
     <<"7","M","G">>, <<"[","a","]">>}

\* the no-bracket path: the pods keyword, delimiters and a strength
PlainVocabulary ==
    {<<"a">>, <<" ">>, <<"P","o","d","s">>, <<"-">>, <<",">>,
     <<"5","m","g">>}

RerunVocabulary ==
    {<<"a">>, <<" ">>, <<"p","o","d","s">>, <<"-">>, <<"[">>, <<"]">>,
     <<"5","m","g">>}

Strs(S) == {Str(s) : s \in S}

Init == InitOver({None, NaN} \cup Strs(Examples \cup Words(Vocabulary, MaxPieces)))

InitBracket ==
    InitOver(Strs(Examples \cup {ExTwoStrengths}
                      \cup Words(BracketVocabulary, MaxBracketPieces)))

InitPlain ==
    InitOver(Strs(Examples \cup {ExPodsAndDash}
                      \cup Words(PlainVocabulary, MaxPlainPieces)))

InitRerun ==
    InitOver(Strs(Examples \cup Words(RerunVocabulary, MaxRerunPieces)))

Spec == Init /\ [][Next]_vars

SpecBracket == InitBracket /\ [][Next]_vars

SpecPlain == InitPlain /\ [][Next]_vars

SpecRerun == InitRerun /\ [][NextRerun]_vars

-----------------------------------------------------------------------------
(* Claims.                                                                 *)

Returned == pc = "returned"

Product == result[1]

Flavour == result[2]

Strength == result[3]

AllSpace(s) == \A i \in 1..Len(s) : IsSpace(s[i])

\* C1: the function is total: every call returns a triple of three strings,
\* and for None, the empty string or a whitespace-only string the triple is
\* ("", "", "").
C1_Total ==
    Returned =>
        /\ Len(result) = 3
        /\ \A k \in 1..3 : result[k] \in Seq(Chars)
        /\ (arg = None \/ (arg.kind = "str" /\ AllSpace(arg.s)))
              => result = <<<<>>, <<>>, <<>>>>

C1_Witness ==
    /\ Returned
    /\ arg.kind = "str" /\ Len(arg.s) >= 2 /\ AllSpace(arg.s)
    /\ result = <<<<>>, <<>>, <<>>>>

\* whitespace runs collapsed to one space, left to right
RECURSIVE Collapsed(_)
Collapsed(t) ==
    IF t = <<>> THEN <<>>
    ELSE LET r == Collapsed(Tail(t))
         IN  IF ~IsSpace(Head(t)) THEN <<Head(t)>> \o r
             ELSE IF r # <<>> /\ r[1] = " " THEN r
             ELSE <<" ">> \o r

RECURSIVE Trimmed(_)
Trimmed(t) ==
    IF t = <<>> THEN <<>>
    ELSE IF IsSpace(Head(t)) THEN Trimmed(Tail(t))
    ELSE IF IsSpace(t[Len(t)]) THEN Trimmed(SubSeq(t, 1, Len(t) - 1))
    ELSE t

\* normalize(t) of the specification
Normalized(t) == Trimmed(Collapsed(t))

\* C9: a text decomposes to the same triple as the text with every whitespace
\* run collapsed to one space and the ends trimmed.
C9_NormalizeInvariant ==
    Returned /\ arg.kind = "str" =>
        result = _extract_product_flavour_strength(Str(Normalized(arg.s)))

C9_Witness ==
    /\ Returned /\ arg.kind = "str"
    /\ \E i \in 1..Len(arg.s) : arg.s[i] \in {"\t", "\n"}
    /\ Normalized(arg.s) # arg.s
    /\ Product # <<>> /\ Flavour # <<>>

-----------------------------------------------------------------------------
(* The bracketed-segment path.                                             *)

\* the normalised text of the call
Text == text

InBracketPath == arg.kind = "str" /\ BracketMatch(Text).found

\* the segments of s between separator characters, left to right
RECURSIVE Segments(_)
Segments(s) ==
    IF \A i \in 1..Len(s) : s[i] \notin Separators THEN <<s>>
    ELSE LET i == Min({k \in 1..Len(s) : s[k] \in Separators})
         IN  <<Slice(s, 1, i - 1)>> \o Segments(Slice(s, i + 1, Len(s)))

\* Token sequence of the specification: segments trimmed, empties discarded
RECURSIVE TrimmedNonEmpty(_)
TrimmedNonEmpty(segs) ==
    IF segs = <<>> THEN <<>>
    ELSE IF Trimmed(Head(segs)) = <<>> THEN TrimmedNonEmpty(Tail(segs))
    ELSE <<Trimmed(Head(segs))>> \o TrimmedNonEmpty(Tail(segs))

BracketTokens == TrimmedNonEmpty(Segments(BracketMatch(Text).group))

\* indices of the tokens that match the StrengthToken pattern
StrengthHits(toks) == {k \in 1..Len(toks) : TokenIsStrength(lower(toks[k]))}

RECURSIVE SpaceJoined(_)
SpaceJoined(toks) ==
    IF toks = <<>> THEN <<>>
    ELSE IF Len(toks) = 1 THEN toks[1]
    ELSE toks[1] \o <<" ">> \o SpaceJoined(Tail(toks))

\* toks without the token at index k
Without(toks, k) == Slice(toks, 1, k - 1) \o Slice(toks, k + 1, Len(toks))

IsInfix(x, s) ==
    \E i \in 1..Len(s) - Len(x) + 1 : SubSeq(s, i, i + Len(x) - 1) = x

\* C2 as stated: in the bracketed path the returned strength is the first
\* token, left to right, that matches the strength pattern.
C2_FirstMatch ==
    Returned /\ InBracketPath =>
        LET hits == StrengthHits(BracketTokens)
        IN  Strength = IF hits = {} THEN <<>> ELSE BracketTokens[Min(hits)]

\* C2 amended: in the bracketed path the returned strength is the last token,
\* left to right, that matches the strength pattern (every later match
\* replaces the earlier one), and "" when no token matches.
C2_LastMatch ==
    Returned /\ InBracketPath =>
        LET hits == StrengthHits(BracketTokens)
        IN  /\ hits = {} => Strength = <<>>
            /\ \A k \in hits :
                  (\A j \in hits : j <= k) => Strength = BracketTokens[k]

C2_Witness ==
    /\ Returned /\ InBracketPath
    /\ \E j, k \in StrengthHits(BracketTokens) :
          /\ j < k
          /\ BracketTokens[j] # BracketTokens[k]
          /\ Strength = BracketTokens[k]

\* the results the specification gives for its examples
BlueRazzResult ==
    <<SubSeq(ExBlueRazz, 1, 14), SubSeq(ExBlueRazz, 17, 25),
      SubSeq(ExBlueRazz, 29, 32)>>

\* C3 as stated: in the bracketed path the flavour is the tokens other than the
\* one token chosen as strength, joined with single spaces in order; no other
\* token is dropped.
C3_OnlyStrengthDropped ==
    Returned /\ InBracketPath =>
        LET hits == StrengthHits(BracketTokens)
        IN  /\ hits = {} => Flavour = SpaceJoined(BracketTokens)
            /\ hits # {} =>
                  \E k \in hits :
                      /\ Strength = BracketTokens[k]
                      /\ Flavour = SpaceJoined(Without(BracketTokens, k))

\* C3 amended: in the bracketed path the flavour is the tokens of the bracket
\* content that do not match the strength pattern, joined with single spaces
\* in their original order: every strength-matching token is dropped, not only
\* the one returned as strength.  The product is the text without the span,
\* trimmed; the Blue Razz example gives ("Blue Razz Pods", "Blue Razz", "20mg").
C3_NonStrengthTokens ==
    Returned /\ InBracketPath =>
        LET m == BracketMatch(Text)
        IN  /\ Flavour = SpaceJoined(SelectSeq(BracketTokens,
                             LAMBDA tok : ~TokenIsStrength(lower(tok))))
            /\ Product = Trimmed(Slice(Text, 1, m.start - 1)
                                    \o Slice(Text, m.end + 1, Len(Text)))
            /\ arg.s = ExBlueRazz => result = BlueRazzResult

C3_Witness ==
    /\ Returned /\ InBracketPath
    /\ Cardinality(StrengthHits(BracketTokens)) >= 2
    /\ Len(BracketTokens) >= 3
    /\ Flavour # <<>>

\* spans <<a, b>> of Text that open with "[" and close with "]" around a
\* non-empty content, and start after position e
SpansAfter(e) ==
    LET opens  == {a \in e + 1..Len(Text) : Text[a] = "["}
        closes == {b \in e + 1..Len(Text) : Text[b] = "]"}
    IN  {ab \in opens \X closes : ab[2] >= ab[1] + 2}

\* where the first span closes: the nearest "]" that leaves the first
\* closable "[" a non-empty content
FirstSpanClose ==
    LET closable == {i \in 1..Len(Text) :
                        Text[i] = "[" /\ \E j \in i + 2..Len(Text) : Text[j] = "]"}
        i == Min(closable)
    IN  Min({j \in i + 2..Len(Text) : Text[j] = "]"})

\* C4: with more than one [...] span only the first is parsed for flavour and
\* strength (the text after it does not change them), and every later span
\* stays verbatim in the product; the multi-bracket example gives flavour "A",
\* strength "10mg" and a product containing "[B/20mg]".
C4_FirstSpanOnly ==
    Returned /\ InBracketPath /\ SpansAfter(FirstSpanClose) # {} =>
        LET later == SpansAfter(FirstSpanClose)
            alone == _extract_product_flavour_strength(
                         Str(SubSeq(Text, 1, FirstSpanClose)))
        IN  /\ Flavour = alone[2] /\ Strength = alone[3]
            /\ \A ab \in later :
                  IsInfix(SubSeq(Text, ab[1], ab[2]), Product)
            /\ arg.s = ExMultiBracket =>
                  /\ Flavour = <<"A">>
                  /\ Strength = <<"1", "0", "m", "g">>
                  /\ IsInfix(SubSeq(ExMultiBracket, 18, 25), Product)

C4_Witness ==
    /\ Returned /\ InBracketPath /\ SpansAfter(FirstSpanClose) # {}
    /\ arg.s # ExMultiBracket
    /\ Flavour # <<>> /\ Strength = <<>>
    /\ \E ab \in SpansAfter(FirstSpanClose) :
          \E k \in ab[1]..ab[2] : Text[k] = "g"

\* occurrences <<i, e>> in s of digits, optional whitespace and "mg" (any
\* case) with a word edge on both sides
WholeWordStrengths(s) ==
    {ie \in (1..Len(s)) \X (1..Len(s)) :
        /\ ie[1] + 2 <= ie[2]
        /\ ie[1] = 1 \/ ~IsWord(s[ie[1] - 1])
        /\ ie[2] = Len(s) \/ ~IsWord(s[ie[2] + 1])
        /\ lower(SubSeq(s, ie[2] - 1, ie[2])) = <<"m", "g">>
        /\ IsDigit(s[ie[1]])
        /\ \A k \in ie[1]..ie[2] - 2 : IsDigit(s[k]) \/ IsSpace(s[k])
        /\ \A k \in ie[1]..ie[2] - 3 : IsSpace(s[k]) => ~IsDigit(s[k + 1])}

\* C5: on both paths a digits+"mg" sequence embedded in a longer word is never
\* classified as strength: the strength is "" unless a word-edge-delimited
\* strength occurs in the text.
C5_NoEmbeddedStrength ==
    Returned /\ arg.kind = "str" =>
        (Strength # <<>> => WholeWordStrengths(Text) # {})

\* C6: the returned product has no leading or trailing whitespace and no run
\* of two or more spaces.
C6_ProductNormalized ==
    Returned => Product = Normalized(Product)

-----------------------------------------------------------------------------
(* The no-bracket path.                                                    *)

InPlainPath == arg.kind = "str" /\ Text # <<>> /\ ~BracketMatch(Text).found

\* the strength-stripped remainder
Remainder == StripStrength(Text)[1]

\* where "pods" (any case) stands in r followed by whitespace and more text
PodsCues(r) ==
    {i \in 1..Len(r) :
        /\ i + 5 <= Len(r)
        /\ \A k \in 0..3 : LowerChar(r[i + k]) = <<"p", "o", "d", "s">>[k + 1]
        /\ IsSpace(r[i + 4])}

DelimiterAt(r) == {k \in 1..Len(r) : r[k] \in {",", "|", "-"}}

\* Rule B would match r: a delimiter with a non-empty delimiter-free tail
HasTrailingSegment(r) == DelimiterAt(r) # {} /\ Max(DelimiterAt(r)) < Len(r)

NicSaltResult ==
    <<SubSeq(ExNicSalt, 1, 8), SubSeq(ExNicSalt, 15, 28),
      SubSeq(ExNicSalt, 30, 33)>>

\* C7: in the no-bracket path, whenever the strength-stripped remainder holds
\* "pods" (any case) followed by whitespace and text, the flavour is the text
\* after the first such "pods" and the product the text before it, both
\* trimmed, also when the remainder ends in a delimited segment Rule B would
\* match; the Nic Salt example gives ("Nic Salt", "Watermelon Ice", "50mg").
C7_PodsBeforeTrailing ==
    Returned /\ InPlainPath /\ PodsCues(Remainder) # {} =>
        LET i == Min(PodsCues(Remainder))
        IN  /\ Flavour = Trimmed(Slice(Remainder, i + 4, Len(Remainder)))
            /\ Product = Trimmed(Slice(Remainder, 1, i - 1))
            /\ arg.s = ExNicSalt => result = NicSaltResult

C7_Witness ==
    /\ Returned /\ InPlainPath /\ PodsCues(Remainder) # {}
    /\ HasTrailingSegment(Remainder)
    /\ Max(DelimiterAt(Remainder)) > Min(PodsCues(Remainder))
    /\ Product # <<>> /\ Flavour # <<>> /\ Strength # <<>>

DisposableResult ==
    <<SubSeq(ExDisposable, 1, 15), SubSeq(ExDisposable, 19, 23), <<>>>>

\* C8: in the no-bracket path when Rule A does not match: if the remainder ends
\* with a comma-, pipe- or dash-delimited trailing segment, that segment
\* trimmed is the flavour and the text before its delimiter, trimmed, is the
\* product; otherwise the flavour is "" and the product is the remainder
\* unchanged.  "Disposable Vape - Mango" gives ("Disposable Vape", "Mango", "").
C8_TrailingSegment ==
    Returned /\ InPlainPath /\ PodsCues(Remainder) = {} =>
        /\ IF HasTrailingSegment(Remainder)
           THEN LET d == Max(DelimiterAt(Remainder))
                IN  /\ Flavour = Trimmed(Slice(Remainder, d + 1, Len(Remainder)))
                    /\ Product = Trimmed(Slice(Remainder, 1, d - 1))
           ELSE Flavour = <<>> /\ Product = Remainder
        /\ arg.s = ExDisposable => result = DisposableResult

C8_Witness ==
    /\ Returned /\ InPlainPath /\ PodsCues(Remainder) = {}
    /\ HasTrailingSegment(Remainder)
    /\ Cardinality(DelimiterAt(Remainder)) >= 2
    /\ Product # <<>> /\ Flavour # <<>>

-----------------------------------------------------------------------------
(* Decomposing the returned product again.                                 *)

RerunExamples ==
    {<<ExBlueRazz, BlueRazzResult[1]>>, <<ExNicSalt, NicSaltResult[1]>>,
     <<ExDisposable, DisposableResult[1]>>}

\* C10: for the three examples of the specification, decomposing the product
\* the first call returned gives (product, "", ""): nothing more is extracted.
C10_RerunExtractsNothing ==
    \A ex \in RerunExamples :
        Returned /\ runs >= 2 /\ first = Str(ex[1]) =>
            /\ arg = Str(ex[2])
            /\ result = <<ex[2], <<>>, <<>>>>

C10_Witness ==
    /\ Returned /\ runs = 2 /\ first = Str(ExBlueRazz)
    /\ arg = Str(BlueRazzResult[1])
    /\ result = <<BlueRazzResult[1], <<>>, <<>>>>

-----------------------------------------------------------------------------
(* parse_product_flavour_strength: a DataFrame is its set of column names  *)
(* and its rows; a row carries src, the row of the file it came from, and  *)
(* its cells, one Python value per column.                                 *)

\* pd.NA, the value clean_rows puts in place of blank text
NA == [kind |-> "NA", s |-> <<>>]

\* Series.notna() of one cell
notna(v) == v.kind \notin {"None", "nan", "NA"}

\* str(c).strip() of a column name; the padded names a file may carry
StripName(c) ==
    CASE c = " Product" -> "Product"
      [] c = "Flavour " -> "Flavour"
      [] OTHER          -> c

\* row.get(c, default)
RowGet(cells, c, default) == IF c \in DOMAIN cells THEN cells[c] ELSE default

\* line 195: the columns renamed to their stripped names
StripColumns(df) ==
    [cols |-> {StripName(c) : c \in df.cols},
     rows |-> [i \in 1..Len(df.rows) |->
                 [src   |-> df.rows[i].src,
                  cells |-> [c \in {StripName(d) : d \in df.cols} |->
                               df.rows[i].cells[
                                   CHOOSE d \in df.cols : StripName(d) = c]]]]]

\* lines 197-199: df[c] = "" for each of the three columns that is missing
AddMissing(df, wanted) ==
    [cols |-> df.cols \cup wanted,
     rows |-> [i \in 1..Len(df.rows) |->
                 [src   |-> df.rows[i].src,
                  cells |-> [c \in df.cols \cup wanted |->
                               RowGet(df.rows[i].cells, c, Str(<<>>))]]]]

\* the extracted value assigned whatever it is
MergeAlways(extracted, old) == Str(extracted)

\* lines 212-223: extracted.where(extracted.notna() & (extracted != ""), old)
MergeField(extracted, old) ==
    IF extracted # <<>> THEN Str(extracted) ELSE old

\* lines 201-225 for one row
ParseRow(row) ==
    LET parsed == _extract_product_flavour_strength(
                      RowGet(row.cells, "Product", Str(<<>>)))
    IN  [src   |-> row.src,
         cells |-> [c \in DOMAIN row.cells |->
                      CASE c = "Product"  -> MergeField(parsed[1], row.cells[c])
                        [] c = "Flavour"  -> MergeField(parsed[2], row.cells[c])
                        [] c = "Strength" -> MergeField(parsed[3], row.cells[c])
                        [] OTHER          -> row.cells[c]]]

\* lines 186-226
parse_product_flavour_strength(df0) ==
    LET df == AddMissing(StripColumns(df0), {"Product", "Flavour", "Strength"})
    IN  [cols |-> df.cols,
         rows |-> [i \in 1..Len(df.rows) |-> ParseRow(df.rows[i])]]

\* line 249 of build_po_table
ParseTable ==
    /\ stage = "read"
    /\ table' = parse_product_flavour_strength(table)
    /\ stage' = "parsed"
    /\ UNCHANGED <<raw, dvars, cvars, hvars, fvars>>

NextTable == ParseTable

\* the decomposer is not running
DecomposerIdle ==
    /\ first = None /\ arg = None /\ text = <<>>
    /\ pc = "idle" /\ result = NoResult /\ runs = 0

\* a Product text with a bracketed flavour and strength
ExBracketed == <<"a", " ", "[", "b", "/", "5", "m", "g", "]">>

Old == Str(<<"o", "l", "d">>)

\* what a file holds in a column: text, blank text, or a missing value (None
\* from a PDF table, NaN from a CSV or spreadsheet)
CellsOf(c) ==
    CASE StripName(c) = "Product" ->
             {None, NaN, Str(<<" ">>), Str(<<"a">>), Str(ExBracketed)}
      [] StripName(c) = "Flavour" -> {Str(<<>>), Old}
      [] c = "Outstanding"        ->
             {NaN, [kind |-> "num", n |-> 5], Str(<<"1", ",", "2">>)}
      [] OTHER                    -> {NaN, Old}

\* the column names of the files read
ColumnSets ==
    {{"Sku", "Product", "Flavour", "Strength"}, {"Sku", " Product", "Flavour "},
     {"Product", "Strength"}, {"Sku", "Flavour"},
     {"Sku", "Product", "Outstanding"}}

\* the rows a file with the columns cols may hold
RowCells(cols) ==
    {f \in [cols -> UNION {CellsOf(c) : c \in cols}] :
        \A c \in cols : f[c] \in CellsOf(c)}

MaxRows == 2

\* the DataFrame with the columns cols whose row i holds cells[i]
Frame(cols, cells) ==
    [cols |-> cols,
     rows |-> [i \in DOMAIN cells |-> [src |-> i, cells |-> cells[i]]]]

\* read_po_file returned a DataFrame of 1..MaxRows rows
InitTable ==
    /\ DecomposerIdle /\ CalcIdle /\ HeadersIdle /\ FolderIdle
    /\ \E cols \in ColumnSets, n \in 1..MaxRows :
          \E cells \in [1..n -> RowCells(cols)] : raw = Frame(cols, cells)
    /\ table = raw
    /\ stage = "read"

SpecTable == InitTable /\ [][NextTable]_vars

\* the row of the file a row of the table came from, columns by stripped name
RawCell(row, c) ==
    LET cells == raw.rows[row.src].cells
    IN  IF \E d \in DOMAIN cells : StripName(d) = c
        THEN cells[CHOOSE d \in DOMAIN cells : StripName(d) = c]
        ELSE Str(<<>>)

\* C11: parse_product_flavour_strength merges field by field: Product, Flavour
\* and Strength of a row take the decomposed value when it is non-empty and
\* keep the row's earlier value when it is empty; every other column of the
\* row is unchanged.
C11_MergeIfNonEmpty ==
    stage = "parsed" =>
        /\ Len(table.rows) = Len(raw.rows)
        /\ \A i \in 1..Len(table.rows) :
              LET row == table.rows[i]
                  dec == _extract_product_flavour_strength(RawCell(row, "Product"))
                  field == <<"Product", "Flavour", "Strength">>
              IN  /\ row.src = i
                  /\ \A k \in 1..3 :
                        row.cells[field[k]] =
                            IF dec[k] # <<>> THEN Str(dec[k])
                            ELSE RawCell(row, field[k])
                  /\ \A c \in DOMAIN row.cells \ Range(field) :
                        row.cells[c] = RawCell(row, c)

C11_Witness ==
    /\ stage = "parsed"
    /\ \E i \in 1..Len(table.rows) :
          /\ RawCell(table.rows[i], "Flavour") = Old
          /\ RawCell(table.rows[i], "Strength") = Old
          /\ RawCell(table.rows[i], "Product") = Str(ExBracketed)
          /\ table.rows[i].cells["Product"] = Str(<<"a">>)
          /\ table.rows[i].cells["Flavour"] = Str(<<"b">>)
          /\ table.rows[i].cells["Strength"] = Str(<<"5", "m", "g">>)
    /\ \E i \in 1..Len(table.rows) :
          /\ RawCell(table.rows[i], "Product") = Str(<<"a">>)
          /\ table.rows[i].cells["Flavour"] = Old
          /\ table.rows[i].cells["Strength"] = Old

-----------------------------------------------------------------------------
(* compute_final_labels of label_calculation.py: a row is its Outstanding  *)
(* and Case_Size cells; a cell is a number, a text, or a missing value.    *)

\* a numeric cell
Num(n) == [kind |-> "num", n |-> n]

DigitChars == <<"0", "1", "2", "3", "4", "5", "6", "7", "8", "9">>

\* int(c) of one digit
DigitValue(c) == (CHOOSE i \in DOMAIN DigitChars : DigitChars[i] = c) - 1

\* the text is one or more digits
IsDigits(s) == Len(s) >= 1 /\ \A i \in 1..Len(s) : IsDigit(s[i])

RECURSIVE DigitsValue(_)
\* int(s) of a text of digits
DigitsValue(s) ==
    IF s = <<>> THEN 0
    ELSE 10 * DigitsValue(Slice(s, 1, Len(s) - 1)) + DigitValue(s[Len(s)])

\* the text spells a whole number, with or without a minus sign
IsIntText(s) ==
    \/ IsDigits(s)
    \/ Len(s) >= 2 /\ s[1] = "-" /\ IsDigits(Slice(s, 2, Len(s)))

IntValue(s) ==
    IF s[1] = "-" THEN 0 - DigitsValue(Slice(s, 2, Len(s))) ELSE DigitsValue(s)

\* pd.to_numeric(cell, errors="coerce"): a number stays, a text that spells a
\* number becomes it, anything else becomes NaN
to_numeric(v) ==
    CASE v.kind = "num"                   -> v
      [] v.kind = "str" /\ IsIntText(v.s) -> Num(IntValue(v.s))
      [] OTHER                            -> NaN

\* Series.fillna(0) of one cell
fillna0(v) == IF v.kind = "num" THEN v ELSE Num(0)

\* math.ceil(out / cs) for cs > 0
Ceil(out, cs) == IF out % cs = 0 THEN out \div cs ELSE (out \div cs) + 1

\* the quotient rounded down
calcFloor(out, cs) ==
    IF cs.kind = "num" /\ cs.n > 0 /\ out.n > 0 THEN out.n \div cs.n ELSE 0

\* lines 29-34: calc(row) on the converted cells
calc(out, cs) ==
    IF cs.kind = "num" /\ cs.n > 0 /\ out.n > 0 THEN Ceil(out.n, cs.n) ELSE 0

\* lines 26-36 for one row
FinalRow(row) ==
    LET out == fillna0(to_numeric(row.Outstanding))
        cs  == to_numeric(row.Case_Size)
    IN  [Outstanding |-> out, Case_Size |-> cs, Final_Labels |-> calc(out, cs)]

\* lines 21-37
compute_final_labels(df) == [i \in 1..Len(df) |-> FinalRow(df[i])]

ComputeFinalLabels ==
    /\ cstage = "edited"
    /\ final_table' = compute_final_labels(edited)
    /\ cstage' = "computed"
    /\ UNCHANGED <<edited, dvars, tvars, hvars, fvars>>

NextCalc == ComputeFinalLabels

\* what the Outstanding column of the edited table may hold
OutstandingCells ==
    {Num(0 - 2), Num(0), Num(1), Num(5), Num(6), NaN,
     Str(<<"x">>), Str(<<"7">>)}

\* what its Case_Size column may hold
CaseSizeCells ==
    {Num(0 - 1), Num(0), Num(2), Num(3), NaN, Str(<<"3">>)}

EditedRows == [Outstanding : OutstandingCells, Case_Size : CaseSizeCells]

MaxEditedRows == 2

InitCalc ==
    /\ DecomposerIdle /\ TableIdle /\ HeadersIdle /\ FolderIdle
    /\ \E n \in 1..MaxEditedRows : edited \in [1..n -> EditedRows]
    /\ final_table = <<>>
    /\ cstage = "edited"

SpecCalc == InitCalc /\ [][NextCalc]_vars

\* the number a cell holds or spells is greater than zero
Positive(v) == to_numeric(v).kind = "num" /\ to_numeric(v).n > 0

Quantity(v) == to_numeric(v).n

\* C12: compute_final_labels sets Final_Labels to ceil(Outstanding / Case_Size)
\* on every row where both are greater than zero and to 0 on every other row;
\* so Final_Labels is a non-negative integer and, when positive, the least n
\* with n * Case_Size >= Outstanding.
C12_CeilOrZero ==
    cstage = "computed" =>
        /\ Len(final_table) = Len(edited)
        /\ \A i \in 1..Len(edited) :
              LET out == edited[i].Outstanding
                  cs  == edited[i].Case_Size
                  n   == final_table[i].Final_Labels
              IN  /\ n \in Nat
                  /\ IF Positive(out) /\ Positive(cs)
                     THEN /\ n > 0
                          /\ n * Quantity(cs) >= Quantity(out)
                          /\ (n - 1) * Quantity(cs) < Quantity(out)
                     ELSE n = 0

C12_Witness ==
    /\ cstage = "computed"
    /\ \E i \in 1..Len(edited) :
          /\ edited[i] = [Outstanding |-> Num(5), Case_Size |-> Num(3)]
          /\ final_table[i].Final_Labels = 2
    /\ \E i \in 1..Len(edited) :
          /\ edited[i] = [Outstanding |-> Str(<<"7">>), Case_Size |-> NaN]
          /\ final_table[i].Final_Labels = 0

-----------------------------------------------------------------------------
(* _make_unique_headers of po_processing.py, one loop iteration per step.  *)

RECURSIVE Decimal(_)
\* str(n) of a natural number
Decimal(n) ==
    IF n < 10 THEN <<DigitChars[n + 1]>>
    ELSE Decimal(n \div 10) \o <<DigitChars[(n % 10) + 1]>>

\* bool(h): None and "" are false
Truthy(h) == ~(h.kind = "None" \/ (h.kind = "str" /\ h.s = <<>>))

\* line 15: str(h).strip() if h else ""
HeaderText(h) == IF Truthy(h) THEN strip(StrOrEmpty(h)) ELSE <<>>

Extra == <<"E", "x", "t", "r", "a">>

\* lines 15-17
MakeUniqueStart ==
    /\ hpc = "call"
    /\ headers' = [i \in 1..Len(headers) |-> HeaderText(headers[i])]
    /\ seen' = <<>>
    /\ new' = <<>>
    /\ hpc' = "loop"
    /\ UNCHANGED <<dvars, tvars, cvars, fvars>>

\* seen[h] = n, h a new key or not
SetSeen(h, n) == [k \in DOMAIN seen \cup {h} |-> IF k = h THEN n ELSE seen[k]]

\* line 23: the name appended for a name met before
Suffixed(h, n) == h \o <<"_">> \o Decimal(n)

\* lines 18-26: one iteration of the loop
MakeUniqueStep ==
    /\ hpc = "loop"
    /\ Len(new) < Len(headers)
    /\ LET h0 == headers[Len(new) + 1]
           h  == IF h0 = <<>> THEN Extra ELSE h0
       IN  IF h \in DOMAIN seen
           THEN /\ seen' = SetSeen(h, seen[h] + 1)
                /\ new' = Append(new, Suffixed(h, seen[h] + 1))
           ELSE /\ seen' = SetSeen(h, 1)
                /\ new' = Append(new, h)
    /\ UNCHANGED <<headers, hpc, dvars, tvars, cvars, fvars>>

\* line 27
MakeUniqueReturn ==
    /\ hpc = "loop"
    /\ Len(new) = Len(headers)
    /\ hpc' = "returned"
    /\ UNCHANGED <<headers, seen, new, dvars, tvars, cvars, fvars>>

NextHeaders == MakeUniqueStart \/ MakeUniqueStep \/ MakeUniqueReturn

\* the cells of the header row of a PDF table
HeaderCells ==
    {None, Str(<<" ">>), Str(<<"A">>), Str(<<"A", " ">>),
     Str(<<"A", "_", "2">>), Str(<<"E", "x", "t", "r", "a", "_", "2">>)}

MaxHeaders == 3

InitHeaders ==
    /\ DecomposerIdle /\ TableIdle /\ CalcIdle /\ FolderIdle
    /\ \E n \in 1..MaxHeaders : headers \in [1..n -> HeaderCells]
    /\ seen = <<>>
    /\ new = <<>>
    /\ hpc = "call"

SpecHeaders == InitHeaders /\ [][NextHeaders]_vars

\* C13: the list _make_unique_headers returns has the length of the list it
\* was given, and its names are all non-empty and pairwise distinct.
C13_UniqueNonEmpty ==
    hpc = "returned" =>
        /\ Len(new) = Len(headers)
        /\ \A i \in 1..Len(new) : new[i] # <<>>
        /\ \A i, j \in 1..Len(new) : i # j => new[i] # new[j]

-----------------------------------------------------------------------------
(* The label run of main_label.py: prepare_label_folder, then              *)
(* generate_labels_from_table one image per step, then list_label_files.   *)
(* A file of CURRENT_RUN_DIR is its name; a path is the name it ends in.   *)

DotPng == <<".", "p", "n", "g">>

\* f"{idx}.png" with idx = str(n)
PngName(n) == Decimal(n) \o DotPng

\* prepare_label_folder: rmtree, then makedirs
PrepareLabelFolder ==
    /\ fstage = "start"
    /\ folder' = {}
    /\ fstage' = "prepared"
    /\ UNCHANGED <<paths, counter, rowi, left, files, before,
                   dvars, tvars, cvars, hvars>>

\* lines 261-262: paths = [], counter = 1
GenerateStart ==
    /\ fstage = "prepared"
    /\ paths' = <<>>
    /\ counter' = 1
    /\ rowi' = 0
    /\ left' = 0
    /\ fstage' = "generating"
    /\ UNCHANGED <<folder, files, before, dvars, tvars, cvars, hvars>>

\* line 265: int(row.get("Final_Labels", 0) or 0)
LabelsOf(row) ==
    IF "Final_Labels" \in DOMAIN row THEN row.Final_Labels ELSE 0

\* lines 264-267: the outer loop takes the next row; n <= 0 skips it
NextRow ==
    /\ fstage = "generating"
    /\ left = 0
    /\ rowi < Len(final_table)
    /\ rowi' = rowi + 1
    /\ left' = IF LabelsOf(final_table[rowi + 1]) <= 0 THEN 0
               ELSE LabelsOf(final_table[rowi + 1])
    /\ UNCHANGED <<folder, paths, counter, files, before, fstage,
                   dvars, tvars, cvars, hvars>>

\* lines 269-279: one image; create_label_image saves it as <counter>.png
CreateLabel ==
    /\ fstage = "generating"
    /\ left > 0
    /\ folder' = folder \cup {PngName(counter)}
    /\ paths' = Append(paths, PngName(counter))
    /\ counter' = counter + 1
    /\ left' = left - 1
    /\ UNCHANGED <<rowi, files, before, fstage, dvars, tvars, cvars, hvars>>

\* line 281: return paths
GenerateReturn ==
    /\ fstage = "generating"
    /\ left = 0
    /\ rowi = Len(final_table)
    /\ fstage' = "generated"
    /\ UNCHANGED <<folder, paths, counter, rowi, left, files, before,
                   dvars, tvars, cvars, hvars>>

\* glob.glob(os.path.join(label_dir, "*.png"))
Glob(dir) ==
    {f \in dir : Len(f) >= 4 /\ Slice(f, Len(f) - 3, Len(f)) = DotPng}

\* os.path.splitext(name)[0] of a .png name
Base(f) == Slice(f, 1, Len(f) - 4)

\* the characters of the names, in code point order
CharOrder == DigitChars \o <<"_">> \o LowerCase

Rank(c) == CHOOSE i \in DOMAIN CharOrder : CharOrder[i] = c

RECURSIVE StrLE(_, _)
\* s <= t of two str
StrLE(s, t) ==
    IF s = <<>> THEN TRUE
    ELSE IF t = <<>> THEN FALSE
    ELSE IF s[1] = t[1] THEN StrLE(Tail(s), Tail(t))
    ELSE Rank(s[1]) < Rank(t[1])

\* every name sorted as text
sort_key_text(f) == <<1, lower(Base(f))>>

\* lines 22-33: (0, int(base)) for a numeric name, (1, base.lower()) otherwise
sort_key(f) ==
    IF IsDigits(Base(f)) THEN <<0, DigitsValue(Base(f))>>
    ELSE <<1, lower(Base(f))>>

\* k1 <= k2 of two keys
KeyLE(k1, k2) ==
    \/ k1[1] < k2[1]
    \/ k1[1] = k2[1] /\ IF k1[1] = 0 THEN k1[2] <= k2[2] ELSE StrLE(k1[2], k2[2])

RECURSIVE SortByKey(_)
\* files.sort(key=sort_key)
SortByKey(S) ==
    IF S = {} THEN <<>>
    ELSE LET m == CHOOSE f \in S :
                      \A g \in S : KeyLE(sort_key(f), sort_key(g))
         IN  <<m>> \o SortByKey(S \ {m})

\* list_label_files(label_dir)
list_label_files(dir) == SortByKey(Glob(dir))

\* Step 5 of main_label.py lists the folder on every run of the script
ListLabelFiles ==
    /\ fstage \in {"start", "generated"}
    /\ files' = list_label_files(folder)
    /\ fstage' = IF fstage = "generated" THEN "listed" ELSE "start"
    /\ UNCHANGED <<folder, paths, counter, rowi, left, before,
                   dvars, tvars, cvars, hvars>>

NextLabels ==
    \/ PrepareLabelFolder
    \/ GenerateStart
    \/ NextRow
    \/ CreateLabel
    \/ GenerateReturn
    \/ ListLabelFiles

\* files an earlier run, or the user, left in the folder
Leftovers ==
    {PngName(2), PngName(12), <<"o", "l", "d">> \o DotPng,
     <<"b", "o", "x">> \o DotPng,
     <<"n", "o", "t", "e", "s", ".", "t", "x", "t">>}

\* the rows of the edited table of a label run
OrderRows ==
    [Outstanding : {Num(0), Num(1), Num(7), Num(13)}, Case_Size : {Num(2)}]

MaxFinalRows == 2

\* the Generate button is pressed on the table compute_final_labels returned
InitLabels ==
    /\ DecomposerIdle /\ TableIdle /\ HeadersIdle
    /\ \E n \in 1..MaxFinalRows : edited \in [1..n -> OrderRows]
    /\ final_table = compute_final_labels(edited)
    /\ cstage = "computed"
    /\ before \in SUBSET Leftovers
    /\ folder = before
    /\ paths = <<>> /\ counter = 0 /\ rowi = 0 /\ left = 0
    /\ files = <<>>
    /\ fstage = "start"

SpecLabels == InitLabels /\ [][NextLabels]_vars

RECURSIVE PositiveLabels(_)
\* the sum of the positive Final_Labels of the first r rows
PositiveLabels(r) ==
    IF r = 0 THEN 0
    ELSE PositiveLabels(r - 1) +
             (IF final_table[r].Final_Labels > 0
              THEN final_table[r].Final_Labels ELSE 0)

TotalLabels == PositiveLabels(Len(final_table))

\* C14: after prepare_label_folder and generate_labels_from_table, whatever
\* the folder held before, it holds exactly 1.png .. N.png, N the sum of the
\* positive Final_Labels; the paths returned are 1.png .. N.png in that order,
\* each row's images following those of the rows before it; and
\* list_label_files returns the same files in the same, numeric, order.
C14_FolderPathsListing ==
    /\ fstage = "generating" =>
          /\ counter = Len(paths) + 1
          /\ Len(paths) = PositiveLabels(rowi) - left
          /\ \A k \in 1..Len(paths) : paths[k] = PngName(k)
    /\ fstage \in {"generated", "listed"} =>
          /\ folder = {PngName(k) : k \in 1..TotalLabels}
          /\ paths = [k \in 1..TotalLabels |-> PngName(k)]
    /\ fstage = "listed" =>
          /\ files = paths
          /\ \A k \in 1..Len(files) : files[k] = PngName(k)

C14_Witness ==
    /\ fstage = "listed"
    /\ Glob(before) # {} /\ ~(before \subseteq folder)
    /\ TotalLabels >= 10
    /\ Len(final_table) >= 2
    /\ files[2] = PngName(2)
    /\ files[10] = PngName(10)
    /\ files = paths

-----------------------------------------------------------------------------
(* build_po_table of po_processing.py: parse, then clean_rows, then the    *)
(* six columns of the label workflow with their numeric conversions.       *)

\* the text matches ^\s*$
IsBlank(v) == v.kind = "str" /\ \A i \in 1..Len(v.s) : IsSpace(v.s[i])

\* line 233: df.replace(r"^\s*$", pd.NA, regex=True) of one cell
ReplaceBlank(v) == IF IsBlank(v) THEN NA ELSE v

\* lines 229-237
clean_rows(df) ==
    LET replaced == [i \in 1..Len(df.rows) |->
                        [src   |-> df.rows[i].src,
                         cells |-> [c \in df.cols |->
                                      ReplaceBlank(df.rows[i].cells[c])]]]
        SomeValue(row) == \E c \in df.cols : notna(row.cells[c])
        ProductOrSku(row) ==
            "Product" \in df.cols /\ "Sku" \in df.cols =>
                notna(row.cells["Product"]) \/ notna(row.cells["Sku"])
        Kept(row) == SomeValue(row) /\ ProductOrSku(row)
    IN  [cols |-> df.cols, rows |-> SelectSeq(replaced, Kept)]

\* line 250 of build_po_table
CleanRows ==
    /\ stage = "parsed"
    /\ table' = clean_rows(table)
    /\ stage' = "cleaned"
    /\ UNCHANGED <<raw, dvars, cvars, hvars, fvars>>

LabelColumns ==
    {"Sku", "Product", "Flavour", "Strength", "Outstanding", "Case_Size"}

\* Series.astype(str) of one cell
AsTypeStr(v) ==
    CASE v.kind = "str"  -> v.s
      [] v.kind = "num"  -> Decimal(v.n)
      [] v.kind = "nan"  -> <<"n", "a", "n">>
      [] v.kind = "None" -> <<"N", "o", "n", "e">>
      [] OTHER           -> <<"<", "N", "A", ">">>

\* .str.replace(",", "", regex=False)
RECURSIVE RemoveCommas(_)
RemoveCommas(s) ==
    IF s = <<>> THEN <<>>
    ELSE IF s[1] = "," THEN RemoveCommas(Tail(s))
    ELSE <<s[1]>> \o RemoveCommas(Tail(s))

\* lines 261-266: the Outstanding cell as a number, 0 when it is none
OutstandingNumber(v) == fillna0(to_numeric(Str(RemoveCommas(AsTypeStr(v)))))

\* lines 252-267 for one row
StandardRow(row) ==
    [src   |-> row.src,
     cells |-> [c \in LabelColumns |->
                  CASE c = "Outstanding" ->
                           OutstandingNumber(RowGet(row.cells, c, Str(<<>>)))
                    [] c = "Case_Size"   ->
                           to_numeric(RowGet(row.cells, c, Str(<<>>)))
                    [] OTHER             -> RowGet(row.cells, c, Str(<<>>))]]

\* lines 252-269 of build_po_table
Standardise ==
    /\ stage = "cleaned"
    /\ table' = [cols |-> LabelColumns,
                 rows |-> [i \in 1..Len(table.rows) |->
                             StandardRow(table.rows[i])]]
    /\ stage' = "built"
    /\ UNCHANGED <<raw, dvars, cvars, hvars, fvars>>

NextBuild == ParseTable \/ CleanRows \/ Standardise

SpecBuild == InitTable /\ [][NextBuild]_vars

\* the cell is missing: None from a PDF table, NaN from a CSV or spreadsheet
Missing(v) == v.kind \in {"None", "nan", "NA"}

\* every field of the row of the file is empty or missing
AllEmpty(cells) ==
    \A c \in DOMAIN cells : Missing(cells[c]) \/ IsBlank(cells[c])

\* C15: in the table build_po_table returns there is no row whose fields
\* were all empty or missing in the file, and no row whose Product was
\* missing in the file has a non-empty Product text.
C15_NoEmptyRowNoInventedProduct ==
    stage = "built" =>
        \A i \in 1..Len(table.rows) :
            LET row == table.rows[i]
            IN  /\ ~AllEmpty(raw.rows[row.src].cells)
                /\ Missing(RawCell(row, "Product")) =>
                      ~(row.cells["Product"].kind = "str"
                          /\ row.cells["Product"].s # <<>>)

====
